---- MODULE Spec2Model ----
(***************************************************************************)
(* Shape bookkeeping of the CycleGAN generator                             *)
(* (tensorflow_gan/examples/cyclegan/generator.py).                        *)
(*                                                                         *)
(* A tensor is represented by its static shape <<batch, height, width,     *)
(* channels>> as known at graph construction time; a dimension that is not *)
(* known statically is None.  cyclegan_generator_resnet is modelled one    *)
(* stage at a time (pc is the position in the function body);              *)
(* cyclegan_upsample is a single call, used both on its own and by the two *)
(* decoder stages.  Numeric tensor contents, variables and variable scopes *)
(* carry no shape information and are not represented; `ops` logs the      *)
(* tensor operations a call has executed so far, in program order.         *)
(***************************************************************************)
EXTENDS Integers, Sequences, FiniteSets, TLC

(* ------------------------------ bounds --------------------------------- *)
MaxDim == 8
MaxBatch == 1
MaxChannels == 2
MaxBlocks == 2
MaxFilters == 2
MaxKernel == 3
MaxStride == 3

(* ----------------------- tensors and library layers -------------------- *)

\* A dimension of TensorShape.as_list() that is unknown at graph construction.
None == -1

Max(a, b) == IF a >= b THEN a ELSE b

\* TensorShape.is_fully_defined
is_fully_defined(shape) == \A i \in 1..Len(shape) : shape[i] # None

\* tf.pad: every known dimension grows by its two paddings.
tf_pad(tensor, pads) ==
  [i \in 1..4 |-> IF tensor[i] = None THEN None
                  ELSE tensor[i] + pads[i][1] + pads[i][2]]

\* An int kernel_size / strides argument of tf.layers means the same value for
\* both spatial axes; a list gives [height, width].  An int is written <<k>>.
normalize_tuple(v) == IF Len(v) = 1 THEN <<v[1], v[1]>> ELSE v

\* Output length of a 'VALID' convolution along one axis.
conv_output_length(d, k, s) ==
  IF d = None THEN None ELSE ((d - k) \div s) + 1

\* Faulty variant of deconv_output_length: the kernel overhang max(k - s, 0) is dropped.
deconv_output_length_no_overhang(d, k, s) ==
  IF d = None THEN None ELSE d * s

\* Output length of a 'valid' transposed convolution along one axis.
deconv_output_length(d, k, s) ==
  IF d = None THEN None ELSE d * s + Max(k - s, 0)

\* A 'VALID' convolution over an input smaller than the kernel has a negative
\* output size: tf.layers.conv2d raises ValueError.
conv2d_raises(net, kernel_size) ==
  LET k == normalize_tuple(kernel_size)
  IN  \E i \in 1..2 : net[i + 1] # None /\ net[i + 1] < k[i]

\* _conv2d: tf.layers.conv2d(net, num_filters, kernel_size, strides, 'VALID').
_conv2d(net, num_filters, kernel_size, strides) ==
  LET k == normalize_tuple(kernel_size)
      s == normalize_tuple(strides)
  IN  <<net[1],
        conv_output_length(net[2], k[1], s[1]),
        conv_output_length(net[3], k[2], s[2]),
        num_filters>>

\* tf.layers.conv2d_transpose(net, num_outputs, kernel_size, strides, 'valid').
conv2d_transpose(net, num_outputs, kernel_size, strides) ==
  LET k == normalize_tuple(kernel_size)
      s == normalize_tuple(strides)
  IN  <<net[1],
        deconv_output_length(net[2], k[1], s[1]),
        deconv_output_length(net[3], k[2], s[2]),
        num_outputs>>

\* tf.image.resize(net, [strides[0] * height, strides[1] * width]).
resize(net, strides) ==
  <<net[1],
    IF net[2] = None THEN None ELSE strides[1] * net[2],
    IF net[3] = None THEN None ELSE strides[2] * net[3],
    net[4]>>

\* net[:, 1:, 1:, :]
slice_1(net) ==
  <<net[1],
    IF net[2] = None THEN None ELSE Max(net[2] - 1, 0),
    IF net[3] = None THEN None ELSE Max(net[3] - 1, 0),
    net[4]>>

\* _instance_norm and tf.nn.relu act elementwise: the shape is kept.
_instance_norm(x) == x
relu(x) == x

\* spatial_pad_1 of cyclegan_upsample and spatial_pad_3 of the generator.
spatial_pad_1 == <<<<0, 0>>, <<1, 1>>, <<1, 1>>, <<0, 0>>>>
spatial_pad_3 == <<<<0, 0>>, <<3, 3>>, <<3, 3>>, <<0, 0>>>>

(* --------------------------- cyclegan_upsample ------------------------- *)

\* The method strings a caller may pass; the last one stands for any string
\* that is none of the three documented ones.
Methods == {"nn_upsample_conv", "bilinear_upsample_conv", "conv2d_transpose",
            "unknown_method"}

\* method='conv2d_transpose' in the signature.
default_method == "conv2d_transpose"

\* Lines 60-62, executed by every call before the if/elif chain:
\* tf.shape(input=net), net_shape[1], net_shape[2].
UpsampleOpsShape == <<"shape", "getitem", "getitem">>

\* The two resize branches: strides[0] * height, strides[1] * width, then
\* resize, pad, conv, norm, relu.
UpsampleOpsResize ==
  UpsampleOpsShape
    \o <<"mul", "mul", "resize", "pad", "conv2d", "instance_norm", "relu">>

\* The conv2d_transpose branch; "slice" is net[:, 1:, 1:, :].
UpsampleOpsTranspose ==
  UpsampleOpsShape \o <<"conv2d_transpose", "relu", "slice">>

\* Faulty variant of upsample_branch: the chain ends in a plain else that takes the
\* conv2d_transpose branch instead of raising.
upsample_branch_no_raise(method) ==
  IF method = "nn_upsample_conv" THEN "nn"
  ELSE IF method = "bilinear_upsample_conv" THEN "bilinear"
  ELSE "transpose"

\* The branch of the if/elif chain taken for `method`.
upsample_branch(method) ==
  IF method = "nn_upsample_conv" THEN "nn"
  ELSE IF method = "bilinear_upsample_conv" THEN "bilinear"
  ELSE IF method = "conv2d_transpose" THEN "transpose"
  ELSE "raise"

\* The whole call: what it returns (or that it raised) and the tensor
\* operations it executed.
cyclegan_upsample(net, num_outputs, strides, method) ==
  LET branch == upsample_branch(method)
      padded == tf_pad(resize(net, strides), spatial_pad_1)
  IN
  IF branch \in {"nn", "bilinear"} THEN
    IF conv2d_raises(padded, <<3>>) THEN
      \* _conv2d (lines 74, 82) raises: nothing is returned.
      [raised |-> TRUE, error |-> "Negative dimension size", net |-> <<>>,
       ops |-> SubSeq(UpsampleOpsResize, 1, 7)]
    ELSE
      [raised |-> FALSE, error |-> "",
       net |-> relu(_instance_norm(_conv2d(padded, num_outputs, <<3>>, <<1>>))),
       ops |-> UpsampleOpsResize]
  ELSE IF branch = "transpose" THEN
    [raised |-> FALSE, error |-> "",
     net |-> slice_1(relu(conv2d_transpose(net, num_outputs, <<3, 3>>, strides))),
     ops |-> UpsampleOpsTranspose]
  ELSE
    [raised |-> TRUE, error |-> "Unknown method", net |-> <<>>,
     ops |-> UpsampleOpsShape]

(* ---------------------- cyclegan_generator_resnet ---------------------- *)

\* Faulty variant of width_rejected: the width is tested against 2 instead of 4.
width_rejected_mod2(width) == width # None /\ width # 0 /\ width % 2 # 0

\* `if height and height % 4 != 0` / `if width and width % 4 != 0`:
\* None is falsy, so an unknown dimension passes.
height_rejected(height) == height # None /\ height # 0 /\ height % 4 # 0
width_rejected(width) == width # None /\ width # 0 /\ width % 4 # 0

\* if not isinstance(kernel_size, (list, tuple)): kernel_size = [k, k]
kernel_list(kernel_size) ==
  IF Len(kernel_size) = 1 THEN <<kernel_size[1], kernel_size[1]>> ELSE kernel_size

\* Faulty variant of make_paddings: the same (k - 1) // 2 on both sides of each axis.
make_paddings_symmetric(kernel_size) ==
  LET pad_h == (kernel_size[1] - 1) \div 2
      pad_w == (kernel_size[2] - 1) \div 2
  IN  <<<<0, 0>>, <<pad_h, pad_h>>, <<pad_w, pad_w>>, <<0, 0>>>>

\* pad_top, pad_bottom, pad_left, pad_right and the paddings array.
make_paddings(kernel_size) ==
  LET kernel_height == kernel_size[1]
      kernel_width == kernel_size[2]
      pad_top == (kernel_height - 1) \div 2
      pad_bottom == kernel_height \div 2
      pad_left == (kernel_width - 1) \div 2
      pad_right == kernel_width \div 2
  IN  <<<<0, 0>>, <<pad_top, pad_bottom>>, <<pad_left, pad_right>>, <<0, 0>>>>

\* Faulty variant of decoder1_filters: the first decoder keeps 4 * num_filters channels.
decoder1_filters_times4(num_filters) == num_filters * 4

\* Channel multipliers of the stages, relative to num_filters.
encoder_1_filters(num_filters) == num_filters * 2
encoder_2_filters(num_filters) == num_filters * 4
block_filters(num_filters) == num_filters * 4
decoder1_filters(num_filters) == num_filters * 2
decoder2_filters(num_filters) == num_filters

\* One conv half of a residual block: pad, conv, norm.
res_f_half(x, num_filters, kernel_size, pads) ==
  _instance_norm(_conv2d(tf_pad(x, pads), block_filters(num_filters), kernel_size, <<1>>))

\* f of a residual block: pad, conv, norm, relu, pad, conv, norm.
res_f(x, num_filters, kernel_size, pads) ==
  res_f_half(relu(res_f_half(x, num_filters, kernel_size, pads)),
             num_filters, kernel_size, pads)

\* Whether the first convolution of f raises (line 210).
res_f_raises_first(x, kernel_size, pads) ==
  conv2d_raises(tf_pad(x, pads), kernel_size)

\* Whether one of the two convolutions of f raises (lines 210, 214).
res_f_raises(x, num_filters, kernel_size, pads) ==
  \/ res_f_raises_first(x, kernel_size, pads)
  \/ conv2d_raises(tf_pad(relu(res_f_half(x, num_filters, kernel_size, pads)), pads),
                   kernel_size)

\* Broadcasting of `net += res_net` along one axis; Incompatible when the two
\* lengths differ and neither is 1 (the addition raises ValueError).  An
\* unknown length against a known length above 1 gives the known length;
\* against 1 it stays unknown.
Incompatible == -2

broadcast_dim(a, b) ==
  IF a = b THEN a
  ELSE IF a = None THEN (IF b > 1 THEN b ELSE None)
  ELSE IF b = None THEN (IF a > 1 THEN a ELSE None)
  ELSE IF a = 1 THEN b
  ELSE IF b = 1 THEN a
  ELSE Incompatible

add_ok(a, b) == \A i \in 1..4 : broadcast_dim(a[i], b[i]) # Incompatible
add(a, b) == [i \in 1..4 |-> broadcast_dim(a[i], b[i])]

num_elements(shape) == shape[1] * shape[2] * shape[3] * shape[4]

\* _dynamic_or_static_shape: tf.shape(tensor) is built on every call (line
\* 106); the static list is returned when the shape is fully defined, the
\* shape tensor otherwise.  Of that tensor only the statically known
\* dimensions are known at graph construction.
_dynamic_or_static_shape(tensor) ==
  IF is_fully_defined(tensor)
  THEN [dynamic |-> FALSE, dims |-> tensor, ops |-> <<"shape">>]
  ELSE [dynamic |-> TRUE, dims |-> [i \in 1..Len(tensor) |-> tensor[i]],
        ops |-> <<"shape">>]

\* tf.reshape fails at construction when both sizes are known and differ.
reshape_ok(tensor, shape) ==
  (is_fully_defined(tensor) /\ is_fully_defined(shape))
    => num_elements(tensor) = num_elements(shape)

block_name(block_id) == "resnet_block_" \o ToString(block_id)

(* ------------------------------- state --------------------------------- *)
VARIABLES
  pc,                 \* position: idle, a generator stage, or a finished call
  images,             \* static shape of the generator's input
  num_resnet_blocks, num_filters, kernel_size,
  num_outputs, paddings,
  net, res_net, logits,
  block_id,
  end_points,         \* the dict, in insertion order: <<key, shape>> pairs
  error,              \* message of the ValueError raised, "" if none
  ops,                \* layer primitives executed by the current call
  up_args, up_ret     \* arguments and result of a direct cyclegan_upsample call

vars == <<pc, images, num_resnet_blocks, num_filters, kernel_size,
          num_outputs, paddings, net, res_net, logits, block_id, end_points,
          error, ops, up_args, up_ret>>

args == <<images, num_resnet_blocks, num_filters>>

\* Static height or width of an input: unknown, or any size from 0 up (a
\* 0-sized dimension is falsy and passes the divisibility checks).
Dims == {None} \cup (0..MaxDim)
Batches == {None} \cup (1..MaxBatch)
KernelSizes == {<<k>> : k \in 1..MaxKernel}
                 \cup {<<kh, kw>> : kh \in 1..MaxKernel, kw \in 1..MaxKernel}
StridePairs == {<<sh, sw>> : sh \in 1..MaxStride, sw \in 1..MaxStride}

NoCall == [raised |-> FALSE, error |-> "", net |-> <<>>, ops |-> <<>>]

Init ==
  /\ pc = "idle"
  /\ images = <<>>
  /\ num_resnet_blocks = 0
  /\ num_filters = 0
  /\ kernel_size = <<>>
  /\ num_outputs = 0
  /\ paddings = <<>>
  /\ net = <<>>
  /\ res_net = <<>>
  /\ logits = <<>>
  /\ block_id = 0
  /\ end_points = <<>>
  /\ error = ""
  /\ ops = <<>>
  /\ up_args = <<>>
  /\ up_ret = NoCall

\* A call of cyclegan_generator_resnet(images, num_resnet_blocks, num_filters,
\* kernel_size = kernel_size) with the default upsample_fn.
CallGenerator ==
  /\ pc = "idle"
  /\ \E b \in Batches, h \in Dims, w \in Dims, c \in 1..MaxChannels :
       images' = <<b, h, w, c>>
  /\ num_resnet_blocks' \in 0..MaxBlocks
  /\ num_filters' \in 1..MaxFilters
  /\ kernel_size' \in KernelSizes
  /\ pc' = "check"
  /\ UNCHANGED <<num_outputs, paddings, net, res_net, logits, block_id,
                 end_points, error, ops, up_args, up_ret>>

\* Lines 156-178: the divisibility checks, then kernel_size and paddings.
CheckInput ==
  /\ pc = "check"
  /\ end_points' = <<>>
  /\ LET input_size == images
         height == input_size[2]
         width == input_size[3]
     IN  IF height_rejected(height) THEN
           /\ pc' = "raised"
           /\ error' = "The input height must be a multiple of 4."
           /\ UNCHANGED <<num_outputs, kernel_size, paddings>>
         ELSE IF width_rejected(width) THEN
           /\ pc' = "raised"
           /\ error' = "The input width must be a multiple of 4."
           /\ UNCHANGED <<num_outputs, kernel_size, paddings>>
         ELSE
           /\ pc' = "input"
           /\ num_outputs' = input_size[4]
           /\ kernel_size' = kernel_list(kernel_size)
           /\ paddings' = make_paddings(kernel_list(kernel_size))
           /\ UNCHANGED error
  /\ UNCHANGED <<args, net, res_net, logits, block_id, ops, up_args, up_ret>>

LayerOps == <<"pad", "conv2d", "instance_norm", "relu">>

\* pad, conv, norm, relu: the layer group of the input and encoder stages.
conv_layer(x, pads, filters, kernel, strides) ==
  [raised |-> conv2d_raises(tf_pad(x, pads), kernel),
   padded |-> tf_pad(x, pads),
   net |-> relu(_instance_norm(_conv2d(tf_pad(x, pads), filters, kernel, strides)))]

\* The state change shared by the three encoder stages: run the layer group,
\* record the end point under `key`, or propagate the layer's ValueError.
RecordLayer(r, key, next) ==
  /\ IF r.raised THEN
       /\ pc' = "raised"
       /\ error' = "Negative dimension size"
       /\ ops' = ops \o <<"pad">>
       /\ net' = r.padded
       /\ UNCHANGED end_points
     ELSE
       /\ net' = r.net
       /\ end_points' = Append(end_points, <<key, r.net>>)
       /\ ops' = ops \o LayerOps
       /\ pc' = next
       /\ UNCHANGED error
  /\ UNCHANGED <<args, kernel_size, num_outputs, paddings, res_net, logits,
                 up_args, up_ret>>

\* Lines 183-189: the 7x7 input stage.
InputStage ==
  /\ pc = "input"
  /\ RecordLayer(conv_layer(images, spatial_pad_3, num_filters, <<7>>, <<1>>),
                 "encoder_0", "encoder_1")
  /\ UNCHANGED block_id

\* Lines 192-196: first stride-2 convolution.
Encoder1 ==
  /\ pc = "encoder_1"
  /\ RecordLayer(conv_layer(net, paddings, encoder_1_filters(num_filters),
                            kernel_size, <<2>>),
                 "encoder_1", "encoder_2")
  /\ UNCHANGED block_id

\* Lines 197-201: second stride-2 convolution; the loop of line 207 starts at 0.
Encoder2 ==
  /\ pc = "encoder_2"
  /\ RecordLayer(conv_layer(net, paddings, encoder_2_filters(num_filters),
                            kernel_size, <<2>>),
                 "encoder_2", "residual")
  /\ block_id' = 0

BlockOps == <<"pad", "conv2d", "instance_norm", "relu",
              "pad", "conv2d", "instance_norm", "add">>

\* Lines 207-217: one iteration of the residual-block loop.
ResidualBlock ==
  /\ pc = "residual"
  /\ block_id < num_resnet_blocks
  /\ IF res_f_raises_first(net, kernel_size, paddings) THEN
       /\ pc' = "raised"
       /\ error' = "Negative dimension size"
       /\ res_net' = tf_pad(net, paddings)
       /\ ops' = ops \o <<"pad">>
       /\ UNCHANGED <<net, end_points, block_id>>
     ELSE IF res_f_raises(net, num_filters, kernel_size, paddings) THEN
       /\ pc' = "raised"
       /\ error' = "Negative dimension size"
       /\ res_net' = tf_pad(relu(res_f_half(net, num_filters, kernel_size, paddings)),
                            paddings)
       /\ ops' = ops \o SubSeq(BlockOps, 1, 5)
       /\ UNCHANGED <<net, end_points, block_id>>
     ELSE
       LET r == res_f(net, num_filters, kernel_size, paddings)
       IN  /\ res_net' = r
           /\ IF add_ok(net, r) THEN
                /\ net' = add(net, r)
                /\ end_points' =
                     Append(end_points, <<block_name(block_id), add(net, r)>>)
                /\ block_id' = block_id + 1
                /\ ops' = ops \o BlockOps
                /\ UNCHANGED <<pc, error>>
              ELSE
                /\ pc' = "raised"
                /\ error' = "Dimensions must be equal"
                /\ ops' = ops \o SubSeq(BlockOps, 1, 7)
                /\ UNCHANGED <<net, end_points, block_id>>
  /\ UNCHANGED <<args, kernel_size, num_outputs, paddings, logits, up_args, up_ret>>

\* A decoder stage: net = upsample_fn(net, num_outputs = n, strides = [2, 2]).
DecoderStage(here, key, n, next) ==
  /\ pc = here
  /\ LET r == cyclegan_upsample(net, n, <<2, 2>>, default_method)
     IN  IF r.raised THEN
           /\ pc' = "raised"
           /\ error' = r.error
           /\ ops' = ops \o r.ops
           /\ UNCHANGED <<net, end_points>>
         ELSE
           /\ net' = r.net
           /\ end_points' = Append(end_points, <<key, r.net>>)
           /\ ops' = ops \o r.ops
           /\ pc' = next
           /\ UNCHANGED error
  /\ UNCHANGED <<args, kernel_size, num_outputs, paddings, res_net, logits,
                 block_id, up_args, up_ret>>

\* Lines 223-225, entered when the loop of line 207 is exhausted.
Decoder1 ==
  /\ block_id >= num_resnet_blocks
  /\ DecoderStage("residual", "decoder1", decoder1_filters(num_filters), "decoder2")

\* Lines 227-229.
Decoder2 ==
  DecoderStage("decoder2", "decoder2", decoder2_filters(num_filters), "output")

\* Lines 232-233: the 7x7 output stage, before the reshape.
OutputConv ==
  /\ pc = "output"
  /\ net' = tf_pad(net, spatial_pad_3)
  /\ IF conv2d_raises(tf_pad(net, spatial_pad_3), <<7>>) THEN
       /\ pc' = "raised"
       /\ error' = "Negative dimension size"
       /\ ops' = ops \o <<"pad">>
       /\ UNCHANGED logits
     ELSE
       /\ logits' = _conv2d(tf_pad(net, spatial_pad_3), num_outputs, <<7>>, <<1>>)
       /\ ops' = ops \o <<"pad", "conv2d">>
       /\ pc' = "reshape"
       /\ UNCHANGED error
  /\ UNCHANGED <<args, kernel_size, num_outputs, paddings, res_net, block_id,
                 end_points, up_args, up_ret>>

\* Lines 234-239: reshape to the input shape, logits and predictions.
\* predictions = tf.tanh(logits) + logits * tanh_linear_slope: tanh, mul, add;
\* the scalar slope changes no shape.
OutputReshape ==
  /\ pc = "reshape"
  /\ LET shape == _dynamic_or_static_shape(images)
     IN  IF reshape_ok(logits, shape.dims) THEN
           /\ logits' = shape.dims
           /\ end_points' = end_points \o <<<<"logits", shape.dims>>,
                                             <<"predictions", shape.dims>>>>
           /\ ops' = ops \o shape.ops \o <<"reshape", "tanh", "mul", "add">>
           /\ pc' = "done"
           /\ UNCHANGED error
         ELSE
           /\ pc' = "raised"
           /\ error' = "Cannot reshape"
           /\ ops' = ops \o shape.ops
           /\ UNCHANGED <<logits, end_points>>
  /\ UNCHANGED <<args, kernel_size, num_outputs, paddings, net, res_net,
                 block_id, up_args, up_ret>>

\* A direct call of cyclegan_upsample(net, num_outputs, strides, method).
CallUpsample ==
  /\ pc = "idle"
  /\ \E b \in Batches, h \in Dims, w \in Dims, c \in 1..MaxChannels,
        n \in 1..MaxFilters, s \in StridePairs, m \in Methods :
       /\ up_args' = [net |-> <<b, h, w, c>>, num_outputs |-> n,
                      strides |-> s, method |-> m]
       /\ up_ret' = cyclegan_upsample(<<b, h, w, c>>, n, s, m)
       /\ pc' = IF cyclegan_upsample(<<b, h, w, c>>, n, s, m).raised
                THEN "up_raised" ELSE "up_returned"
  /\ UNCHANGED <<args, kernel_size, num_outputs, paddings, net, res_net, logits,
                 block_id, end_points, error, ops>>

\* The call is over (returned or raised); its locals are gone.
Return ==
  /\ pc \in {"done", "raised", "up_returned", "up_raised"}
  /\ pc' = "idle"
  /\ images' = <<>>
  /\ num_resnet_blocks' = 0
  /\ num_filters' = 0
  /\ kernel_size' = <<>>
  /\ num_outputs' = 0
  /\ paddings' = <<>>
  /\ net' = <<>>
  /\ res_net' = <<>>
  /\ logits' = <<>>
  /\ block_id' = 0
  /\ end_points' = <<>>
  /\ error' = ""
  /\ ops' = <<>>
  /\ up_args' = <<>>
  /\ up_ret' = NoCall

Next ==
  \/ CallGenerator
  \/ CheckInput
  \/ InputStage
  \/ Encoder1
  \/ Encoder2
  \/ ResidualBlock
  \/ Decoder1
  \/ Decoder2
  \/ OutputConv
  \/ OutputReshape
  \/ CallUpsample
  \/ Return

Spec == Init /\ [][Next]_vars

(* ------------------------------ claims --------------------------------- *)

InGenerator ==
  pc \in {"input", "encoder_1", "encoder_2", "residual", "decoder2", "output",
          "reshape", "done", "raised"}

KnownNotMultipleOf4(d) == d # None /\ d % 4 # 0

\* C1: whenever the statically known input height or the statically known
\* input width is not a multiple of 4 (one alone is enough, the other may be
\* unknown), the generator call has raised ValueError about that dimension
\* as soon as it is past its checks, with no end point recorded and no
\* padding or convolution executed.
C1_RejectsBeforeBuilding ==
  (InGenerator /\ (KnownNotMultipleOf4(images[2]) \/ KnownNotMultipleOf4(images[3])))
    => /\ pc = "raised"
       /\ error \in {"The input height must be a multiple of 4.",
                     "The input width must be a multiple of 4."}
       /\ end_points = <<>>
       /\ ops = <<>>

\* C1 witness: the call raised on a bad known width while the height is unknown.
C1_Witness ==
  /\ pc = "raised"
  /\ images[2] = None
  /\ images[3] = 6
  /\ error = "The input width must be a multiple of 4."

KnownMultipleOf4(d) == d # None /\ d % 4 = 0

\* C2 as stated: for every input whose height and width are multiples of 4,
\* every num_resnet_blocks, every kernel_size and the default upsample_fn,
\* the call does not raise and the shape just before the final reshape
\* equals the shape of the input.
C2_ShapeRestored ==
  (InGenerator /\ KnownMultipleOf4(images[2]) /\ KnownMultipleOf4(images[3])) =>
    /\ pc # "raised"
    /\ (pc = "reshape" => (logits = images /\ reshape_ok(logits, images)))
    /\ (pc = "done" => logits = images)

\* C2 amended: for every accepted input whose height and width are not 0
\* (positive multiples of 4, or unknown), every num_resnet_blocks, every
\* kernel_size (scalar or [kh, kw], odd or even) and the default upsample_fn,
\* no layer raises and the shape produced by the layer chain just before the
\* final reshape equals the shape of the input, so the reshape is possible
\* and changes nothing; with a 0-sized height or width the 7x7 input
\* convolution raises instead.
C2_ShapeRestoredNonEmpty ==
  InGenerator =>
    /\ (images[2] # 0 /\ images[3] # 0) =>
         /\ (pc = "reshape" => (logits = images /\ reshape_ok(logits, images)))
         /\ (pc = "done" => logits = images)
         /\ error \notin {"Cannot reshape", "Negative dimension size"}
    /\ ( /\ images[2] = 0 \/ images[3] = 0
         /\ ~KnownNotMultipleOf4(images[2])
         /\ ~KnownNotMultipleOf4(images[3])
         /\ pc # "input" ) =>
         /\ pc = "raised"
         /\ error = "Negative dimension size"
         /\ end_points = <<>>

\* C2 witness: an 8 x 4 input with an even, non-square kernel and two residual
\* blocks has reached the reshape.
C2_Witness ==
  /\ pc = "reshape"
  /\ images[2] = 8
  /\ images[3] = 4
  /\ kernel_size = <<2, 3>>
  /\ num_resnet_blocks = 2

\* C3: for each of the three supported methods and every pair of positive
\* integer strides, cyclegan_upsample returns height strides[0] * h, width
\* strides[1] * w, num_outputs channels and the batch size unchanged.
C3_UpsampleScalesByStrides ==
  pc = "up_returned" =>
    LET a == up_args IN
    /\ up_ret.net[1] = a.net[1]
    /\ (a.net[2] # None => up_ret.net[2] = a.strides[1] * a.net[2])
    /\ (a.net[3] # None => up_ret.net[3] = a.strides[2] * a.net[3])
    /\ up_ret.net[4] = a.num_outputs

\* The steps claim C4 names: resize, padding, convolution, normalization,
\* activation.
LayerSteps ==
  {"resize", "pad", "conv2d", "conv2d_transpose", "instance_norm", "relu"}

Quarter(d) == IF d = None THEN None ELSE d \div 4

\* C5: f (pad, conv, norm, relu, pad, conv, norm) applied to the input of a
\* residual block never raises and returns the shape of its input; after
\* every residual block the f(input) that was added has the shape of the
\* tensor, which still has the encoder_2 shape
\* [batch, h/4, w/4, 4 * num_filters]; the addition never fails.
C5_ResidualKeepsShape ==
  /\ (pc = "residual" =>
        /\ ~res_f_raises(net, num_filters, kernel_size, paddings)
        /\ res_f(net, num_filters, kernel_size, paddings) = net
        /\ net = end_points[3][2]
        /\ net = <<images[1], Quarter(images[2]), Quarter(images[3]), 4 * num_filters>>
        /\ block_id > 0 =>
             /\ res_net = net
             /\ end_points[3 + block_id][2] = net)
  /\ error # "Dimensions must be equal"

\* C5 witness: two residual blocks with an even, non-square kernel are done.
C5_Witness ==
  /\ pc = "residual"
  /\ block_id = 2
  /\ kernel_size = <<2, 3>>
  /\ images[2] = 8
  /\ res_net = net

RECURSIVE ExpectedBlocks(_, _)
ExpectedBlocks(n, filters) ==
  IF n = 0 THEN <<>>
  ELSE Append(ExpectedBlocks(n - 1, filters),
              <<"resnet_block_" \o ToString(n - 1), 4 * filters>>)

\* Key and channel count of every end point of a complete call, in order.
ExpectedEndPoints ==
  <<<<"encoder_0", num_filters>>, <<"encoder_1", 2 * num_filters>>,
    <<"encoder_2", 4 * num_filters>>>>
  \o ExpectedBlocks(num_resnet_blocks, num_filters)
  \o <<<<"decoder1", 2 * num_filters>>, <<"decoder2", num_filters>>,
       <<"logits", images[4]>>, <<"predictions", images[4]>>>>

\* Number of end points recorded when the call is at position pc.
RecordedAt ==
  CASE pc = "input" -> 0
    [] pc = "encoder_1" -> 1
    [] pc = "encoder_2" -> 2
    [] pc = "residual" -> 3 + block_id
    [] pc = "decoder2" -> 4 + num_resnet_blocks
    [] pc \in {"output", "reshape"} -> 5 + num_resnet_blocks
    [] pc = "done" -> 7 + num_resnet_blocks

\* C6: the end points are recorded in the order encoder_0, encoder_1,
\* encoder_2, resnet_block_0 .. resnet_block_(n-1), decoder1, decoder2, logits,
\* predictions, each stage after the previous one, with channel counts
\* num_filters, 2x, 4x, 4x per block, 2x, 1x and the input channel count.
C6_StageOrderAndChannels ==
  (InGenerator /\ pc # "raised") =>
    /\ Len(end_points) = RecordedAt
    /\ \A i \in 1..Len(end_points) :
         /\ end_points[i][1] = ExpectedEndPoints[i][1]
         /\ end_points[i][2][4] = ExpectedEndPoints[i][2]

\* C6 witness: a complete call with two residual blocks and 2 filters on a
\* 1-channel input.
C6_Witness ==
  /\ pc = "done"
  /\ num_resnet_blocks = 2
  /\ num_filters = 2
  /\ images[4] = 1
  /\ Len(end_points) = 9

====
